---------------------------- MODULE Spec2Model ----------------------------
(***************************************************************************)
(* Replay engine of the trading UI (src/app.py): the yfinance bar          *)
(* normalizer served by /api/stock-data and the browser-side playback      *)
(* controller, series loader, chart geometry, pointer handler and          *)
(* portfolio ledger embedded in the page.                                  *)
(*                                                                         *)
(* Units.  Provider prices are in mills (1/1000 of a currency unit), so    *)
(* that round(x, 2) is a real conversion; emitted bar prices are in cents; *)
(* the emitted change is in hundredths of a percent; minPrice and maxPrice *)
(* are in mills (10% of a range in cents is a whole number of mills).      *)
(* Pixel quantities are plain integers.                                    *)
(***************************************************************************)
EXTENDS Integers, Sequences, FiniteSets

VARIABLES
    chartData,          \* the client's chartData: [isArray, rows]
    isPlaying,          \* playback flag
    isRunning,          \* a runBacktest call is in flight
    currentDay,         \* the cursor
    totalDays,          \* chartData.length as stored by runBacktest
    playSpeed,          \* interval in ms used for the next setInterval
    playInterval,       \* handle of the most recent setInterval (null = 0)
    timers,             \* the browser's active interval timers: {[id, ms]}
    maxVisibleCandles,  \* cached by drawChart
    minPrice, maxPrice, \* cached by drawChart
    canvasWidth,        \* canvas.width
    clientWidth,        \* chartContainer.clientWidth
    loadPc,             \* position of the runBacktest coroutine
    hist,               \* provider rows of the request the server handles
    response,           \* body the server answers that request with
    lastCommand,        \* most recent controller command the user issued
    tooltip,            \* bar the tooltip shows (0-based), or TooltipHidden
    portfolioData,      \* the holdings: [symbol, avgPrice, quantity, currentPrice]
    upsert,             \* the submit handler suspended on its price lookup
    submitDisabled,     \* the form's submit button is disabled
    passes,             \* the runs of the price-refresh callback
    summary,            \* what updatePortfolioSummary last computed
    formStatus,         \* how the most recent submit of the form went
    unattended,         \* the user has left the page to the running replay
    overtaken           \* Clear All ran while the latest valid submit waited

chartVars == <<chartData, isPlaying, isRunning, currentDay, totalDays,
               playSpeed, playInterval, timers, maxVisibleCandles, minPrice,
               maxPrice, canvasWidth, clientWidth, loadPc, hist, response,
               lastCommand, unattended>>

portfolioVars == <<portfolioData, upsert, submitDisabled, passes, summary,
                   formStatus, overtaken>>

vars == <<chartVars, tooltip, portfolioVars>>

---------------------------------------------------------------------------
(* Bounds of the model *)

\* longest provider answer (rows per fetched series)
MaxLen == 2

\* cap on the cursor, which the code itself does not always bound
MaxDay == 4

\* cap on the runs of the price-refresh callback that overlap
MaxPasses == 1

---------------------------------------------------------------------------
(* Program constants *)

candleWidth == 12
candleSpacing == 4
PadLeft == 80
PadRight == 50
DefaultWidth == 1200
InitialPlaySpeed == 1000
InitialMaxVisible == 60
CanvasSlack == 40
PadTop == 50
PadBottom == 50
CanvasHeight == 500
CandleInset == 20

\* JavaScript's undefined, for the numeric globals that can hold it
undefined == -1000000

\* JavaScript's null interval handle
null == 0

\* the tooltip with display: none
TooltipHidden == -1

\* values the speed slider can deliver (min 50, max 500, step 50): a sample
SliderValues == {50, 500}

\* widths the chart container can have: 0 makes the code fall back to 1200,
\* 140 fits no candle, 150 fits one
ClientWidths == {0, 140, 150}

---------------------------------------------------------------------------
(* Provider data *)

\* Rows the provider can return: Open, High, Low, Close in mills, none of
\* them on a rounding tie (last digit 5), Open > 0.
RawRows ==
    { [Open |-> 100000, High |-> 102500, Low |-> 99500, Close |-> 102000, Volume |-> 10],
      [Open |-> 99996,  High |-> 102000, Low |-> 99990, Close |-> 101996, Volume |-> 10],
      [Open |-> 99996,  High |-> 100000, Low |-> 97990, Close |-> 97996,  Volume |-> 10],
      [Open |-> 100000, High |-> 100000, Low |-> 100000, Close |-> 100000, Volume |-> 10],
      [Open |-> 100000, High |-> 100500, Low |-> 97500, Close |-> 98000,  Volume |-> 10],
      [Open |-> 100000, High |-> 105500, Low |-> 99000, Close |-> 105000, Volume |-> 10],
      [Open |-> 100000, High |-> 101000, Low |-> 94000, Close |-> 95000,  Volume |-> 10],
      \* rows a provider glitch can deliver: a High below the Open, an Open of 0
      [Open |-> 100000, High |-> 99000,  Low |-> 98000, Close |-> 98500,  Volume |-> 10],
      [Open |-> 0,      High |-> 1000,   Low |-> 0,     Close |-> 500,    Volume |-> 10] }

\* What stock.history() can return: up to MaxLen rows, possibly none.
Hists == UNION { [1..n -> RawRows] : n \in 0..MaxLen }

\* The rows of the series the chart is driven with
ChartRows ==
    { [Open |-> 99996,  High |-> 102000, Low |-> 99990, Close |-> 101996, Volume |-> 10],
      [Open |-> 100000, High |-> 100000, Low |-> 100000, Close |-> 100000, Volume |-> 10] }

ChartHists == UNION { [1..n -> ChartRows] : n \in 0..MaxLen }

---------------------------------------------------------------------------
(* Arithmetic helpers *)

\* round(n/d) to the nearest integer, ties to even (Python's round), d > 0
RoundHalfEven(n, d) ==
    LET q == n \div d
        r == n % d
    IN  IF 2 * r < d THEN q
        ELSE IF 2 * r > d THEN q + 1
        ELSE IF q % 2 = 0 THEN q ELSE q + 1

Max(a, b) == IF a >= b THEN a ELSE b
Min(a, b) == IF a <= b THEN a ELSE b

\* Math.min(...rows.map(d => d.low)), over the rows from the i-th on
SeqMin(rows, i) ==
    CHOOSE m \in {rows[j].low : j \in i..Len(rows)} :
        \A j \in i..Len(rows) : m <= rows[j].low
\* Math.max(...rows.map(d => d.high)), over the rows from the i-th on
SeqMax(rows, i) ==
    CHOOSE m \in {rows[j].high : j \in i..Len(rows)} :
        \A j \in i..Len(rows) : m >= rows[j].high

---------------------------------------------------------------------------
(* Server: fetch_yfinance_data and /api/stock-data *)

\* the signal thresholds, applied to the unrounded Open and Close
SignalGe(row) ==
    IF (row.Close - row.Open) * 100 >= 2 * row.Open THEN "BUY"
    ELSE IF (row.Close - row.Open) * 100 <= -2 * row.Open THEN "SELL"
    ELSE "HOLD"

Signal(row) ==
    IF (row.Close - row.Open) * 100 > 2 * row.Open THEN "BUY"
    ELSE IF (row.Close - row.Open) * 100 < -2 * row.Open THEN "SELL"
    ELSE "HOLD"

\* float64 division by zero raises nothing: x / 0 is inf, -inf or nan
Infinity == 2000000
NaN == 3000000

\* round((Close - Open) / Open * 100, 2), in 1/100 percent
dailyChange(row) ==
    IF row.Open = 0
    THEN IF row.Close > 0 THEN Infinity
         ELSE IF row.Close < 0 THEN -Infinity
         ELSE NaN
    ELSE RoundHalfEven((row.Close - row.Open) * 10000, row.Open)

\* one emitted candlestick: prices rounded to cents, change to 2 decimals
Bar(row, i) ==
    [ date   |-> i,
      open   |-> RoundHalfEven(row.Open, 10),
      high   |-> RoundHalfEven(row.High, 10),
      low    |-> RoundHalfEven(row.Low, 10),
      close  |-> RoundHalfEven(row.Close, 10),
      volume |-> row.Volume,
      signal |-> Signal(row),
      change |-> dailyChange(row) ]

fetch_yfinance_data(h) == [i \in 1..Len(h) |-> Bar(h[i], i)]

\* the JSON body the client parses: the bar array, or the 404 error object
api_stock_data(h) ==
    LET data == fetch_yfinance_data(h)
    IN  IF Len(data) = 0
        THEN [isArray |-> FALSE, rows |-> <<>>]
        ELSE [isArray |-> TRUE, rows |-> data]

\* the empty array: chartData before any load, and a body not yet produced
EmptyArray == [isArray |-> TRUE, rows |-> <<>>]

---------------------------------------------------------------------------
(* Client: JavaScript helpers *)

\* x.length: the row count of an array, undefined on the error object
JsLength(cd) == IF cd.isArray THEN Len(cd.rows) ELSE undefined

\* a >= b as JavaScript evaluates it: false when either side is undefined
JsGe(a, b) == a # undefined /\ b # undefined /\ a >= b

\* !n for a number or undefined
Falsy(n) == n = 0 \/ n = undefined

\* setInterval: a fresh handle, never one still active or still stored
NewTimerId(tm, pi) ==
    CHOOSE i \in 1..(Cardinality(tm) + 2) :
        /\ i # pi
        /\ \A t \in tm : t.id # i
        /\ \A j \in 1..(i - 1) : j = pi \/ \E t \in tm : t.id = j

setInterval(tm, pi, ms) == tm \cup {[id |-> NewTimerId(tm, pi), ms |-> ms]}

clearInterval(tm, h) == {t \in tm : t.id # h}

---------------------------------------------------------------------------
(* Client: chart geometry *)

\* drawChart: how many candles fit, Math.floor(chartWidth / candleAreaWidth)
drawChartMaxVisible(cw) ==
    (cw - PadLeft - PadRight) \div (candleWidth + candleSpacing)

\* drawChart's window start, sliding one candle too far
drawChartStartIndexWide(day, mv) == IF day > mv THEN day - mv - 1 ELSE 0

\* drawChart: first index of the visible slice
drawChartStartIndex(day, mv) == IF day > mv THEN day - mv ELSE 0

\* drawChart: end index (exclusive) of the visible slice
drawChartEndIndex(day) == day

\* drawChart: length of chartData.slice(startIndex, endIndex) over n rows
drawChartVisible(n, startIndex, endIndex) ==
    Max(0, Min(endIndex, n) - Min(startIndex, n))

\* drawChart taking the price range from the visible slice only
drawChartSliceRange(cd, day, cw, mv, mn, mx) ==
    LET newMv      == drawChartMaxVisible(cw)
        startIndex == drawChartStartIndex(day, newMv)
        endIndex   == drawChartEndIndex(day)
        n          == Len(cd.rows)
        visible    == drawChartVisible(n, startIndex, endIndex)
        lo         == SeqMin(SubSeq(cd.rows, startIndex + 1, Min(endIndex, n)), 1)
        hi         == SeqMax(SubSeq(cd.rows, startIndex + 1, Min(endIndex, n)), 1)
    IN  IF JsLength(cd) = 0
        THEN [maxVisibleCandles |-> mv, minPrice |-> mn, maxPrice |-> mx,
              threw |-> FALSE]
        ELSE IF ~cd.isArray
        THEN [maxVisibleCandles |-> newMv, minPrice |-> mn, maxPrice |-> mx,
              threw |-> TRUE]
        ELSE IF visible = 0
        THEN [maxVisibleCandles |-> newMv, minPrice |-> mn, maxPrice |-> mx,
              threw |-> FALSE]
        ELSE [maxVisibleCandles |-> newMv,
              minPrice |-> 10 * lo - (hi - lo),
              maxPrice |-> 10 * hi + (hi - lo),
              threw |-> FALSE]

\* drawChart: the globals it writes, and whether it threw.  On the error
\* object chartData.length is undefined, the emptiness test fails, and
\* chartData.slice is not a function.
drawChart(cd, day, cw, mv, mn, mx) ==
    LET newMv      == drawChartMaxVisible(cw)
        startIndex == drawChartStartIndex(day, newMv)
        endIndex   == drawChartEndIndex(day)
        n          == Len(cd.rows)
        visible    == drawChartVisible(n, startIndex, endIndex)
        lo         == SeqMin(cd.rows, 1)
        hi         == SeqMax(cd.rows, 1)
    IN  IF JsLength(cd) = 0
        THEN [maxVisibleCandles |-> mv, minPrice |-> mn, maxPrice |-> mx,
              threw |-> FALSE]
        ELSE IF ~cd.isArray
        THEN [maxVisibleCandles |-> newMv, minPrice |-> mn, maxPrice |-> mx,
              threw |-> TRUE]
        ELSE IF visible = 0
        THEN [maxVisibleCandles |-> newMv, minPrice |-> mn, maxPrice |-> mx,
              threw |-> FALSE]
        ELSE [maxVisibleCandles |-> newMv,
              minPrice |-> 10 * lo - (hi - lo),
              maxPrice |-> 10 * hi + (hi - lo),
              threw |-> FALSE]

\* adjustCanvasWidth sizing the canvas to the container alone
adjustCanvasWidthContainerOnly(cd, day, cw, client, mv, mn, mx) ==
    LET minWidth == IF client = 0 THEN DefaultWidth ELSE client
        newCw    == IF cd.isArray THEN minWidth ELSE 0
    IN  IF JsLength(cd) = 0
        THEN [canvasWidth |-> cw,
              draw |-> [maxVisibleCandles |-> mv, minPrice |-> mn,
                        maxPrice |-> mx, threw |-> FALSE]]
        ELSE [canvasWidth |-> newCw,
              draw |-> drawChart(cd, day, newCw, mv, mn, mx)]

\* adjustCanvasWidth: the new canvas.width and the redraw.  On the error
\* object the required width is NaN, which canvas.width stores as 0.
adjustCanvasWidth(cd, day, cw, client, mv, mn, mx) ==
    LET requiredWidth == PadLeft + PadRight
                         + Len(cd.rows) * (candleWidth + candleSpacing)
                         + CanvasSlack
        minWidth == IF client = 0 THEN DefaultWidth ELSE client
        newCw    == IF cd.isArray THEN Max(minWidth, requiredWidth) ELSE 0
    IN  IF JsLength(cd) = 0
        THEN [canvasWidth |-> cw,
              draw |-> [maxVisibleCandles |-> mv, minPrice |-> mn,
                        maxPrice |-> mx, threw |-> FALSE]]
        ELSE [canvasWidth |-> newCw,
              draw |-> drawChart(cd, day, newCw, mv, mn, mx)]

---------------------------------------------------------------------------
(* Client: candle geometry of the render pass and of the pointer handler.
   A vertical position is held as its product with maxPrice - minPrice, so
   that priceToY stays exact; the pointer's y is held as twice that
   product, so that the middle of a painted body is a position too. *)

\* (price - minPrice) / (maxPrice - minPrice) is a number, not NaN
ScaleDefined(mn, mx) == mn # undefined /\ mx # undefined /\ mx - mn > 0

\* drawCandlestick: x, the centre line of the candle in slot index
drawCandlestickX(index) ==
    PadLeft + CandleInset + index * (candleWidth + candleSpacing)
        + candleWidth \div 2

\* drawCandlestick: priceToY(price) * (maxPrice - minPrice), price in cents
drawCandlestickPriceToY(price, mn, mx) ==
    LET chartHeight == CanvasHeight - PadTop - PadBottom
    IN  (PadTop + chartHeight) * (mx - mn) - (10 * price - mn) * chartHeight

\* drawCandlestick: the rectangle handed to fillRect for the body
drawCandlestick(candle, index, mn, mx) ==
    LET openY      == drawCandlestickPriceToY(candle.open, mn, mx)
        closeY     == drawCandlestickPriceToY(candle.close, mn, mx)
        bodyTop    == Min(openY, closeY)
        bodyHeight == Max(closeY - openY, openY - closeY)
    IN  [left   |-> drawCandlestickX(index) - candleWidth \div 2,
         width  |-> candleWidth,
         top    |-> bodyTop,
         height |-> Max(bodyHeight, mx - mn)]

\* the pointer position at the exact centre of a painted body
BodyCentre(candle, index, mn, mx) ==
    LET body == drawCandlestick(candle, index, mn, mx)
    IN  [x |-> body.left + body.width \div 2, y |-> 2 * body.top + body.height]

\* the pointer handler's priceToY with the price axis not inverted
handleSimpleMouseMovePriceToYUpright(price, mn, mx) ==
    PadTop * (mx - mn)
        + (CanvasHeight - PadTop - PadBottom) * (10 * price - mn)

\* handleSimpleMouseMove: priceToY(price) * (maxPrice - minPrice)
handleSimpleMouseMovePriceToY(price, mn, mx) ==
    PadTop * (mx - mn)
        + (CanvasHeight - PadTop - PadBottom) * ((mx - mn) - (10 * price - mn))

\* handleSimpleMouseMove: the bar the tooltip shows afterwards.  The loop
\* stops at the first slot under the pointer's x whose candle is missing
\* (candle.high throws and the tooltip stays as it was) or holds the
\* pointer's y between priceToY(high) and priceToY(low).
handleSimpleMouseMove(cd, day, mv, mn, mx, tip, mouseX, mouseY) ==
    LET visibleCount == Min(day, mv)
        startIndex   == IF day > mv THEN day - mv ELSE 0
        candleStartX(i) ==
            PadLeft + CandleInset + i * (candleWidth + candleSpacing)
        over(i) == /\ mouseX >= candleStartX(i)
                   /\ mouseX <= candleStartX(i) + candleWidth
        missing(i) == ~cd.isArray \/ startIndex + i >= Len(cd.rows)
        inside(i) ==
            /\ ScaleDefined(mn, mx)
            /\ LET candle == cd.rows[startIndex + i + 1]
                   candleTopY ==
                       handleSimpleMouseMovePriceToY(candle.high, mn, mx)
                   candleBottomY ==
                       handleSimpleMouseMovePriceToY(candle.low, mn, mx)
               IN  /\ mouseY >= 2 * candleTopY
                   /\ mouseY <= 2 * candleBottomY
        stops == {i \in 0..(visibleCount - 1) :
                      over(i) /\ (missing(i) \/ inside(i))}
        first == CHOOSE i \in stops : \A j \in stops : i <= j
    IN  IF day = 0 \/ JsLength(cd) = 0 THEN TooltipHidden
        ELSE IF stops = {} THEN TooltipHidden
        ELSE IF missing(first) THEN tip
        ELSE startIndex + first

---------------------------------------------------------------------------
(* Client: portfolio ledger.  A symbol is the sequence of its characters;
   prices are in cents, so that the form's step of 0.01 is a whole number. *)

\* what the user can type into the symbol field (required: never empty)
RawSymbols ==
    { <<" ">>,
      <<"a", "a", "p", "l">>,
      <<"M", "S", "F", "T", " ">> }

\* what the user can enter as average price (cents) and quantity
NumberInputs ==
    { [avgPrice |-> 10000,  quantity |-> 10],
      [avgPrice |-> 20000,  quantity |-> 5],
      [avgPrice |-> 0,      quantity |-> 5],
      [avgPrice |-> -10000, quantity |-> 5],
      [avgPrice |-> 10000,  quantity |-> 0],
      [avgPrice |-> 10000,  quantity |-> -5] }

\* x || 0
OrZero(x) == IF Falsy(x) THEN 0 ELSE x

\* the ways a request to /api/stock-price/<symbol> can end: the fetch
\* rejects, or get_current_price answers 200 with the provider's close for
\* the symbol, 404 or 500, the last two with a body that has no price
LookupAnswers(symbol) ==
    { [rejected |-> FALSE, status |-> 200,
       price |-> IF symbol = <<"A", "A", "P", "L">> THEN 11000 ELSE 19000],
      [rejected |-> FALSE, status |-> 404, price |-> undefined],
      [rejected |-> FALSE, status |-> 500, price |-> undefined],
      [rejected |-> TRUE,  status |-> 0,   price |-> undefined] }

\* the lookups that fail
LookupFailures(symbol) ==
    {a \in LookupAnswers(symbol) : a.rejected \/ a.status # 200}

\* fetchCurrentPrice: data.price || 0, and 0 from its catch block
fetchCurrentPrice(answer) ==
    IF answer.rejected THEN 0 ELSE OrZero(answer.price)

\* what fetchCurrentPrice can return for a symbol
PriceOutcomes(symbol) ==
    {fetchCurrentPrice(a) : a \in LookupAnswers(symbol)}

\* String.prototype.toUpperCase, on the letters that occur
toUpperCase(str) ==
    [i \in 1..Len(str) |->
        CASE str[i] = "a" -> "A"
          [] str[i] = "p" -> "P"
          [] str[i] = "l" -> "L"
          [] OTHER -> str[i]]

\* String.prototype.trim
trim(str) ==
    LET inked == {i \in 1..Len(str) : str[i] # " "}
        first == CHOOSE i \in inked : \A j \in inked : i <= j
        last  == CHOOSE i \in inked : \A j \in inked : i >= j
    IN  IF inked = {} THEN <<>> ELSE SubSeq(str, first, last)

\* stockSymbol.value.toUpperCase().trim() for each text the user can type
symbolOf == [raw \in RawSymbols |-> trim(toUpperCase(raw))]

\* the submit handler's test of its three inputs, quantity left unchecked
validHoldingAnyQuantity(symbol, avgPrice, quantity) ==
    ~(symbol = <<>> \/ avgPrice <= 0)

\* the submit handler's test of its three inputs
validHolding(symbol, avgPrice, quantity) ==
    ~(symbol = <<>> \/ avgPrice <= 0 \/ quantity <= 0)

\* portfolioData.findIndex(s => s.symbol === symbol), 1-based; 0 for -1
findIndex(pd, symbol) ==
    LET found == {i \in 1..Len(pd) : pd[i].symbol = symbol}
    IN  IF found = {} THEN 0
        ELSE CHOOSE i \in found : \A j \in found : i <= j

\* the submit handler's store, always pushing
upsertHoldingPush(pd, holding) == Append(pd, holding)

\* the submit handler's store: replace the holding of that symbol, or push
upsertHolding(pd, holding) ==
    LET existingIndex == findIndex(pd, holding.symbol)
    IN  IF existingIndex # 0
        THEN [pd EXCEPT ![existingIndex] = holding]
        ELSE Append(pd, holding)

RECURSIVE reduceValue(_, _, _), reduceCost(_, _, _)
\* portfolioData.reduce((sum, stock) => sum + (currentPrice || 0) * quantity)
reduceValue(pd, i, sum) ==
    IF i > Len(pd) THEN sum
    ELSE reduceValue(pd, i + 1, sum + OrZero(pd[i].currentPrice) * pd[i].quantity)
\* portfolioData.reduce((sum, stock) => sum + avgPrice * quantity)
reduceCost(pd, i, sum) ==
    IF i > Len(pd) THEN sum
    ELSE reduceCost(pd, i + 1, sum + pd[i].avgPrice * pd[i].quantity)

\* updatePortfolioSummary with the holdings valued at their average price
updatePortfolioSummaryAtCost(pd) ==
    LET totalValue    == reduceCost(pd, 1, 0)
        totalCost     == reduceCost(pd, 1, 0)
        totalGainLoss == totalValue - totalCost
    IN  [totalValue |-> totalValue, totalCost |-> totalCost,
         totalGainLoss |-> totalGainLoss,
         percentNum |-> IF totalCost > 0 THEN totalGainLoss * 100 ELSE 0,
         percentDen |-> IF totalCost > 0 THEN totalCost ELSE 1,
         divided |-> totalCost > 0]

\* updatePortfolioSummary dividing whatever the total cost is
updatePortfolioSummaryUnguarded(pd) ==
    LET totalValue    == reduceValue(pd, 1, 0)
        totalCost     == reduceCost(pd, 1, 0)
        totalGainLoss == totalValue - totalCost
    IN  [totalValue |-> totalValue, totalCost |-> totalCost,
         totalGainLoss |-> totalGainLoss,
         percentNum |-> totalGainLoss * 100,
         percentDen |-> totalCost,
         divided |-> TRUE]

\* updatePortfolioSummary: its four values in cents, the percentage as the
\* exact fraction percentNum / percentDen, and whether it divided
updatePortfolioSummary(pd) ==
    LET totalValue    == reduceValue(pd, 1, 0)
        totalCost     == reduceCost(pd, 1, 0)
        totalGainLoss == totalValue - totalCost
    IN  [totalValue |-> totalValue, totalCost |-> totalCost,
         totalGainLoss |-> totalGainLoss,
         percentNum |-> IF totalCost > 0 THEN totalGainLoss * 100 ELSE 0,
         percentDen |-> IF totalCost > 0 THEN totalCost ELSE 1,
         divided |-> totalCost > 0]

\* a run of the refresh callback that is not under way
IdlePass == [st |-> "idle", live |-> TRUE, syms |-> <<>>, idx |-> 0,
             held |-> FALSE]

\* stock.currentPrice = price at the end of a lookup, assigning the average
\* price as well
refreshAssignBoth(pd, pass, price) ==
    IF pass.live /\ pass.held
    THEN [pd EXCEPT ![pass.idx].currentPrice = price,
                    ![pass.idx].avgPrice = price]
    ELSE pd

\* the result of a lookup stored with the holding of that symbol in the
\* portfolio as it is when the result arrives
refreshAssignBySymbol(pd, pass, price) ==
    LET symbol == IF pass.live THEN pd[pass.idx].symbol
                  ELSE pass.syms[pass.idx]
        i == findIndex(pd, symbol)
    IN  IF i # 0 THEN [pd EXCEPT ![i].currentPrice = price] ELSE pd

\* stock.currentPrice = price at the end of a lookup: stock is the object
\* the loop took from the array it iterates, which is in portfolioData only
\* while that array is still the portfolio (live) and the object is still
\* its element (held)
refreshAssign(pd, pass, price) ==
    IF pass.live /\ pass.held
    THEN [pd EXCEPT ![pass.idx].currentPrice = price]
    ELSE pd

---------------------------------------------------------------------------
(* Client: playback controller *)

\* togglePlay without its data guard
togglePlayUnguarded(cd, playing, pi, tm, speed) ==
    IF ~playing
    THEN [isPlaying |-> TRUE,
          playInterval |-> NewTimerId(tm, pi),
          timers |-> setInterval(tm, pi, speed)]
    ELSE [isPlaying |-> FALSE, playInterval |-> pi,
          timers |-> clearInterval(tm, pi)]

\* togglePlay: the playback globals after the call
togglePlay(cd, playing, pi, tm, speed) ==
    IF Falsy(JsLength(cd))
    THEN [isPlaying |-> playing, playInterval |-> pi, timers |-> tm]
    ELSE IF ~playing
    THEN [isPlaying |-> TRUE,
          playInterval |-> NewTimerId(tm, pi),
          timers |-> setInterval(tm, pi, speed)]
    ELSE [isPlaying |-> FALSE, playInterval |-> pi,
          timers |-> clearInterval(tm, pi)]

\* the page after DOMContentLoaded, in a container w pixels wide
InitWith(w) ==
    /\ chartData = EmptyArray
    /\ isPlaying = FALSE
    /\ isRunning = FALSE
    /\ currentDay = 0
    /\ totalDays = 0
    /\ playSpeed = InitialPlaySpeed
    /\ playInterval = null
    /\ timers = {}
    /\ maxVisibleCandles = InitialMaxVisible
    /\ minPrice = undefined
    /\ maxPrice = undefined
    /\ clientWidth = w
    /\ canvasWidth = (IF w = 0 THEN DefaultWidth ELSE w)
    /\ loadPc = "idle"
    /\ hist = <<>>
    /\ response = EmptyArray
    /\ lastCommand = "none"
    /\ tooltip = TooltipHidden
    /\ portfolioData = <<>>
    /\ upsert = <<>>
    /\ submitDisabled = FALSE
    /\ passes = [p \in 1..MaxPasses |-> IdlePass]
    /\ summary = updatePortfolioSummary(<<>>)
    /\ formStatus = "none"
    /\ unattended = FALSE
    /\ overtaken = FALSE

Init == \E w \in ClientWidths : InitWith(w)

\* the Play/Pause button, rewinding the cursor whenever it starts the timer
TogglePlayRewinding ==
    LET r == togglePlay(chartData, isPlaying, playInterval, timers, playSpeed)
    IN  /\ isPlaying' = r.isPlaying
        /\ playInterval' = r.playInterval
        /\ timers' = r.timers
        /\ currentDay' = (IF r.isPlaying /\ ~isPlaying THEN 0 ELSE currentDay)
        /\ lastCommand' = (IF isPlaying THEN "pause" ELSE "start")
        /\ UNCHANGED <<chartData, isRunning, totalDays, playSpeed,
                       maxVisibleCandles, minPrice, maxPrice, canvasWidth,
                       clientWidth, loadPc, hist, response,
                       tooltip, portfolioVars, unattended>>

\* the Play/Pause button: start() or resume() when not playing, else pause()
TogglePlay ==
    LET r == togglePlay(chartData, isPlaying, playInterval, timers, playSpeed)
    IN  /\ isPlaying' = r.isPlaying
        /\ playInterval' = r.playInterval
        /\ timers' = r.timers
        /\ lastCommand' = (IF isPlaying THEN "pause" ELSE "start")
        /\ UNCHANGED <<chartData, isRunning, currentDay, totalDays, playSpeed,
                       maxVisibleCandles, minPrice, maxPrice, canvasWidth,
                       clientWidth, loadPc, hist, response,
                       tooltip, portfolioVars, unattended>>

\* playStep's end test: currentDay >= totalDays
playStepAtEnd(day, total) == JsGe(day, total)

\* playStep advancing two days at a time
playStepSkipDay(day) == day + 2

\* playStep's currentDay++
playStepNextDay(day) == day + 1

\* the interval callback advancing the cursor without redrawing the chart
PlayStepNoRedraw ==
    /\ timers # {}
    /\ IF playStepAtEnd(currentDay, totalDays)
       THEN /\ isPlaying' = FALSE
            /\ timers' = clearInterval(timers, playInterval)
            /\ UNCHANGED currentDay
       ELSE /\ totalDays = undefined => currentDay < MaxDay
            /\ currentDay' = playStepNextDay(currentDay)
            /\ UNCHANGED <<isPlaying, timers>>
    /\ UNCHANGED <<chartData, isRunning, totalDays, playSpeed, playInterval,
                   maxVisibleCandles, minPrice, maxPrice,
                   canvasWidth, clientWidth, loadPc, hist, response,
                   lastCommand, tooltip, portfolioVars, unattended>>

\* the interval callback of an active timer
PlayStep ==
    /\ timers # {}
    /\ IF playStepAtEnd(currentDay, totalDays)
       THEN /\ isPlaying' = FALSE
            /\ timers' = clearInterval(timers, playInterval)
            /\ UNCHANGED <<currentDay, maxVisibleCandles, minPrice, maxPrice>>
       ELSE /\ totalDays = undefined => currentDay < MaxDay
            /\ currentDay' = playStepNextDay(currentDay)
            /\ \E d \in {drawChart(chartData, playStepNextDay(currentDay),
                                    canvasWidth, maxVisibleCandles, minPrice,
                                    maxPrice)} :
                   /\ maxVisibleCandles' = d.maxVisibleCandles
                   /\ minPrice' = d.minPrice
                   /\ maxPrice' = d.maxPrice
            /\ UNCHANGED <<isPlaying, timers>>
    /\ UNCHANGED <<chartData, isRunning, totalDays, playSpeed, playInterval,
                   canvasWidth, clientWidth, loadPc, hist, response,
                   lastCommand, tooltip, portfolioVars, unattended>>

\* the Reset button
ResetSystem ==
    LET r == IF isPlaying
             THEN togglePlay(chartData, isPlaying, playInterval, timers,
                             playSpeed)
             ELSE [isPlaying |-> isPlaying, playInterval |-> playInterval,
                   timers |-> timers]
        d == drawChart(chartData, 0, canvasWidth, maxVisibleCandles,
                       minPrice, maxPrice)
    IN  /\ isPlaying' = r.isPlaying
        /\ playInterval' = r.playInterval
        /\ timers' = r.timers
        /\ currentDay' = 0
        /\ maxVisibleCandles' = d.maxVisibleCandles
        /\ minPrice' = d.minPrice
        /\ maxPrice' = d.maxPrice
        /\ lastCommand' = "reset"
        /\ UNCHANGED <<chartData, isRunning, totalDays, playSpeed,
                       canvasWidth, clientWidth, loadPc, hist, response,
                       tooltip, portfolioVars, unattended>>

\* the speed slider's input handler, installing the new interval without
\* cancelling the running one
SetSpeedNoClear ==
    \E v \in SliderValues :
        /\ playSpeed' = v
        /\ IF isPlaying
           THEN /\ playInterval' = NewTimerId(timers, playInterval)
                /\ timers' = setInterval(timers, playInterval, v)
           ELSE UNCHANGED <<playInterval, timers>>
        /\ UNCHANGED <<chartData, isPlaying, isRunning, currentDay, totalDays,
                       maxVisibleCandles, minPrice, maxPrice, canvasWidth,
                       clientWidth, loadPc, hist, response, lastCommand,
                       tooltip, portfolioVars, unattended>>

\* the speed slider's input handler
SetSpeed ==
    \E v \in SliderValues :
        /\ playSpeed' = v
        /\ IF isPlaying
           THEN /\ playInterval' = NewTimerId(clearInterval(timers, playInterval),
                                              playInterval)
                /\ timers' = setInterval(clearInterval(timers, playInterval),
                                         playInterval, v)
           ELSE UNCHANGED <<playInterval, timers>>
        /\ UNCHANGED <<chartData, isPlaying, isRunning, currentDay, totalDays,
                       maxVisibleCandles, minPrice, maxPrice, canvasWidth,
                       clientWidth, loadPc, hist, response, lastCommand,
                       tooltip, portfolioVars, unattended>>

\* the window's resize handler, the container now w pixels wide
ResizeTo(w) ==
    LET cw == IF w = 0 THEN DefaultWidth ELSE w
    IN  \E d \in {drawChart(chartData, currentDay, cw, maxVisibleCandles,
                            minPrice, maxPrice)} :
            /\ clientWidth' = w
            /\ canvasWidth' = cw
            /\ maxVisibleCandles' = d.maxVisibleCandles
            /\ minPrice' = d.minPrice
            /\ maxPrice' = d.maxPrice
            /\ UNCHANGED <<chartData, isPlaying, isRunning, currentDay,
                           totalDays, playSpeed, playInterval, timers, loadPc,
                           hist, response, lastCommand,
                           tooltip, portfolioVars, unattended>>

Resize == \E w \in ClientWidths : ResizeTo(w)

---------------------------------------------------------------------------
(* Client and server: loading a series (runBacktest) *)

\* the Run Backtest button: ignored while a load is in flight
RunBacktest ==
    /\ ~isRunning
    /\ isRunning' = TRUE
    /\ loadPc' = "fetching"
    /\ UNCHANGED <<chartData, isPlaying, currentDay, totalDays, playSpeed,
                   playInterval, timers, maxVisibleCandles, minPrice,
                   maxPrice, canvasWidth, clientWidth, hist, response,
                   lastCommand, tooltip, portfolioVars, unattended>>

\* fetch() rejects (no answer from the server): catch, then finally
FetchFails ==
    /\ loadPc = "fetching"
    /\ isRunning' = FALSE
    /\ loadPc' = "idle"
    /\ UNCHANGED <<chartData, isPlaying, currentDay, totalDays, playSpeed,
                   playInterval, timers, maxVisibleCandles, minPrice,
                   maxPrice, canvasWidth, clientWidth, hist, response,
                   lastCommand, tooltip, portfolioVars, unattended>>

\* runBacktest from the parsed body to the end of adjustCanvasWidth: the
\* globals it leaves, and whether it left through an exception
runBacktestLoaded(data, cd, total, day, cw, client, mv, mn, mx) ==
    IF JsLength(data) = 0
    THEN [chartData |-> cd, totalDays |-> total, currentDay |-> day,
          canvasWidth |-> cw, maxVisibleCandles |-> mv, minPrice |-> mn,
          maxPrice |-> mx, threw |-> TRUE]
    ELSE LET a == adjustCanvasWidth(data, 0, cw, client, mv, mn, mx)
         IN  [chartData |-> data, totalDays |-> JsLength(data),
              currentDay |-> 0, canvasWidth |-> a.canvasWidth,
              maxVisibleCandles |-> a.draw.maxVisibleCandles,
              minPrice |-> a.draw.minPrice, maxPrice |-> a.draw.maxPrice,
              threw |-> a.draw.threw]

\* the bodies /api/stock-data can answer a load with
ChartResponses == {api_stock_data(h) : h \in ChartHists}

\* runBacktest leaving through its exception without the finally block
FetchReturnsWithNoFinally(data) ==
    /\ loadPc = "fetching"
    /\ \E r \in {runBacktestLoaded(data, chartData, totalDays, currentDay,
                                    canvasWidth, clientWidth,
                                    maxVisibleCandles, minPrice, maxPrice)} :
            /\ chartData' = r.chartData
            /\ totalDays' = r.totalDays
            /\ currentDay' = r.currentDay
            /\ canvasWidth' = r.canvasWidth
            /\ maxVisibleCandles' = r.maxVisibleCandles
            /\ minPrice' = r.minPrice
            /\ maxPrice' = r.maxPrice
            /\ isRunning' = TRUE
            /\ loadPc' = (IF r.threw THEN "idle" ELSE "backtesting")
    /\ UNCHANGED <<isPlaying, playSpeed, playInterval, timers, clientWidth,
                   hist, response, lastCommand, tooltip, portfolioVars,
                   unattended>>

\* the /api/stock-data answer arrives with body data and runBacktest resumes
FetchReturnsWith(data) ==
    /\ loadPc = "fetching"
    /\ \E r \in {runBacktestLoaded(data, chartData, totalDays, currentDay,
                                    canvasWidth, clientWidth,
                                    maxVisibleCandles, minPrice, maxPrice)} :
            /\ chartData' = r.chartData
            /\ totalDays' = r.totalDays
            /\ currentDay' = r.currentDay
            /\ canvasWidth' = r.canvasWidth
            /\ maxVisibleCandles' = r.maxVisibleCandles
            /\ minPrice' = r.minPrice
            /\ maxPrice' = r.maxPrice
            /\ isRunning' = ~r.threw
            /\ loadPc' = (IF r.threw THEN "idle" ELSE "backtesting")
    /\ UNCHANGED <<isPlaying, playSpeed, playInterval, timers, clientWidth,
                   hist, response, lastCommand, tooltip, portfolioVars,
                   unattended>>

FetchReturns == \E data \in ChartResponses : FetchReturnsWith(data)

\* the /api/run-backtest answer arrives (any status): finally
BacktestReturns ==
    /\ loadPc = "backtesting"
    /\ isRunning' = FALSE
    /\ loadPc' = "idle"
    /\ UNCHANGED <<chartData, isPlaying, currentDay, totalDays, playSpeed,
                   playInterval, timers, maxVisibleCandles, minPrice,
                   maxPrice, canvasWidth, clientWidth, hist, response,
                   lastCommand, tooltip, portfolioVars, unattended>>

---------------------------------------------------------------------------
(* Client: the pointer over the canvas *)

\* the candles drawChart paints for the state: the length of its visible slice
VisibleCandles ==
    LET mv == drawChartMaxVisible(canvasWidth)
    IN  drawChartVisible(IF chartData.isArray THEN Len(chartData.rows) ELSE 0,
                         drawChartStartIndex(currentDay, mv),
                         drawChartEndIndex(currentDay))

\* slot k of the frame on the canvas holds a painted candle body
PaintedBody(k) ==
    /\ chartData.isArray
    /\ 0 <= k /\ k < VisibleCandles
    /\ ScaleDefined(minPrice, maxPrice)

\* the candle drawChart handed to drawCandlestick for slot k
PaintedCandle(k) ==
    chartData.rows[drawChartStartIndex(currentDay,
                       drawChartMaxVisible(canvasWidth)) + k + 1]

\* pointer positions: over slot k (at the centre of its body where one is
\* painted, at the top edge of the canvas otherwise), and left of all slots
PointerOverSlot(k) ==
    IF PaintedBody(k)
    THEN BodyCentre(PaintedCandle(k), k, minPrice, maxPrice)
    ELSE [x |-> drawCandlestickX(k), y |-> 0]

Pointers == {PointerOverSlot(k) : k \in 0..(MaxLen - 1)} \cup {[x |-> 0, y |-> 0]}

\* a mousemove event on the canvas at pointer position p
MouseMoveAt(p) ==
    /\ tooltip' = handleSimpleMouseMove(chartData, currentDay,
                                        maxVisibleCandles, minPrice, maxPrice,
                                        tooltip, p.x, p.y)
    /\ UNCHANGED <<chartVars, portfolioVars>>

MouseMove == \E p \in Pointers : MouseMoveAt(p)

\* a mouseleave handler that also halts the replay
MouseLeavePausing ==
    /\ tooltip' = TooltipHidden
    /\ isPlaying' = FALSE
    /\ timers' = clearInterval(timers, playInterval)
    /\ UNCHANGED <<chartData, isRunning, currentDay, totalDays, playSpeed,
                   playInterval, maxVisibleCandles, minPrice, maxPrice,
                   canvasWidth, clientWidth, loadPc, hist, response,
                   lastCommand, portfolioVars, unattended>>

\* a mouseleave event on the canvas: hideTooltip
MouseLeave ==
    /\ tooltip' = TooltipHidden
    /\ UNCHANGED <<chartVars, portfolioVars>>

---------------------------------------------------------------------------
(* The page: every handler and callback of the replay engine *)

Next ==
    \/ TogglePlay
    \/ PlayStep
    \/ ResetSystem
    \/ SetSpeed
    \/ Resize
    \/ RunBacktest
    \/ FetchFails
    \/ FetchReturns
    \/ BacktestReturns
    \/ MouseMove
    \/ MouseLeave

Spec == Init /\ [][Next]_vars

---------------------------------------------------------------------------
(* The page with a network that answers: every fetch of runBacktest is
   settled in the end, by a body or by a rejection.  The pointer handlers,
   which touch the tooltip only, are left out. *)

NextAnswered ==
    \/ TogglePlay
    \/ PlayStep
    \/ ResetSystem
    \/ SetSpeed
    \/ Resize
    \/ RunBacktest
    \/ FetchFails
    \/ FetchReturns
    \/ BacktestReturns

SpecAnswered ==
    /\ Init
    /\ [][NextAnswered]_vars
    /\ WF_vars(FetchFails \/ FetchReturns)
    /\ WF_vars(BacktestReturns)

---------------------------------------------------------------------------
(* Scenario: a window that is never resized.  The container keeps the width
   it had when the page was loaded; everything else happens as in Spec. *)

NextNoResize ==
    \/ TogglePlay
    \/ PlayStep
    \/ ResetSystem
    \/ SetSpeed
    \/ RunBacktest
    \/ FetchFails
    \/ FetchReturns
    \/ BacktestReturns

SpecNoResize == Init /\ [][NextNoResize]_vars

---------------------------------------------------------------------------
(* Scenario: the replay left to itself.  The user works the page as in Spec
   and at some moment, with the replay playing and no load in flight, lets
   go of it; from then on only the interval timer acts.  setInterval keeps
   firing its callback for as long as the interval is installed. *)

\* every handler the user or the network can trigger
UserActs ==
    /\ ~unattended
    /\ \/ TogglePlay
       \/ ResetSystem
       \/ SetSpeed
       \/ Resize
       \/ RunBacktest
       \/ FetchFails
       \/ FetchReturns
       \/ BacktestReturns

\* the user lets go of the page while the replay is playing
LeavePageAlone ==
    /\ ~unattended
    /\ isPlaying
    /\ loadPc = "idle"
    /\ unattended' = TRUE
    /\ UNCHANGED <<chartData, isPlaying, isRunning, currentDay, totalDays,
                   playSpeed, playInterval, timers, maxVisibleCandles,
                   minPrice, maxPrice, canvasWidth, clientWidth, loadPc,
                   hist, response, lastCommand, tooltip, portfolioVars>>

NextUnattended ==
    \/ UserActs
    \/ LeavePageAlone
    \/ PlayStep

SpecUnattended ==
    /\ Init
    /\ [][NextUnattended]_vars
    /\ WF_vars(PlayStep)

---------------------------------------------------------------------------
(* A replay of one year of bars: the page opens in a container 1100 pixels
   wide, every load answers with the same 250 bars, and the only resize
   event leaves the container as wide as it was. *)

\* the /api/stock-data body for a history of 250 trading days
Series250 ==
    api_stock_data([i \in 1..250 |->
        [Open |-> 99996, High |-> 102000, Low |-> 99990, Close |-> 101996,
         Volume |-> 10]])

Init250 == InitWith(1100)

Next250 ==
    \/ RunBacktest
    \/ FetchReturnsWith(Series250)
    \/ BacktestReturns
    \/ ResizeTo(1100)
    \/ TogglePlay
    \/ PlayStep
    \/ ResetSystem

SpecReplay250 == Init250 /\ [][Next250]_vars

---------------------------------------------------------------------------
(* Client: the portfolio form, the Clear All button and the price-refresh
   timer, the chart left alone.  A lookup in flight is a suspended submit
   handler (upsert) or a run of the refresh callback that awaits. *)

\* the form's submit event with the fields as typed.  The browser delivers
\* it only while the submit button is enabled.
SubmitWith(raw, avgPrice, quantity) ==
    /\ ~submitDisabled
    /\ IF ~validHolding(symbolOf[raw], avgPrice, quantity)
       THEN /\ formStatus' = "rejected"
            /\ UNCHANGED <<upsert, submitDisabled, overtaken>>
       ELSE /\ formStatus' = "loading"
            /\ submitDisabled' = TRUE
            /\ overtaken' = FALSE
            /\ upsert' = <<[symbol |-> symbolOf[raw], avgPrice |-> avgPrice,
                            quantity |-> quantity]>>
    /\ UNCHANGED <<portfolioData, passes, summary, tooltip, chartVars>>

Submit ==
    \E raw \in RawSymbols, n \in NumberInputs :
        SubmitWith(raw, n.avgPrice, n.quantity)

\* the submit handler resumes with the looked-up price.  A refresh run that
\* awaits the price of the holding replaced here keeps the replaced object.
UpsertReturnsWith(currentPrice) ==
    /\ upsert # <<>>
    /\ LET holding == [symbol |-> upsert[1].symbol,
                       avgPrice |-> upsert[1].avgPrice,
                       quantity |-> upsert[1].quantity,
                       currentPrice |-> currentPrice]
           existingIndex == findIndex(portfolioData, holding.symbol)
       IN  /\ portfolioData' = upsertHolding(portfolioData, holding)
           /\ passes' = [p \in 1..MaxPasses |->
                            IF /\ passes[p].st = "awaiting"
                               /\ passes[p].live
                               /\ passes[p].idx = existingIndex
                            THEN [passes[p] EXCEPT !.held = FALSE]
                            ELSE passes[p]]
           /\ formStatus' = IF existingIndex # 0 THEN "updated" ELSE "added"
    /\ summary' = updatePortfolioSummary(portfolioData')
    /\ upsert' = <<>>
    /\ submitDisabled' = FALSE
    /\ UNCHANGED <<chartVars, tooltip, overtaken>>

UpsertReturns ==
    /\ upsert # <<>>
    /\ \E price \in PriceOutcomes(upsert[1].symbol) : UpsertReturnsWith(price)

\* the Clear All button: portfolioData becomes a new empty array, and the
\* refresh runs under way keep iterating the array it was
ClearPortfolio ==
    \E confirmed \in BOOLEAN :
        IF confirmed
        THEN /\ portfolioData' = <<>>
             /\ passes' = [p \in 1..MaxPasses |->
                              IF passes[p].st = "awaiting" /\ passes[p].live
                              THEN [passes[p] EXCEPT
                                       !.live = FALSE,
                                       !.held = FALSE,
                                       !.syms = [i \in 1..Len(portfolioData)
                                                   |-> portfolioData[i].symbol]]
                              ELSE passes[p]]
             /\ summary' = updatePortfolioSummary(portfolioData')
             /\ overtaken' = (upsert # <<>>)
             /\ UNCHANGED <<chartVars, tooltip, upsert, submitDisabled,
                            formStatus>>
        ELSE UNCHANGED vars

\* the 5-minute timer fires: a run of the callback starts and awaits the
\* price of the first holding, or returns at once over an empty portfolio
RefreshStart ==
    \E p \in 1..MaxPasses :
        /\ passes[p].st = "idle"
        /\ \A q \in 1..(p - 1) : passes[q].st # "idle"
        /\ IF Len(portfolioData) > 0
           THEN passes' = [passes EXCEPT
                              ![p] = [st |-> "awaiting", live |-> TRUE,
                                      syms |-> <<>>, idx |-> 1, held |-> TRUE]]
           ELSE UNCHANGED passes
        /\ UNCHANGED <<chartVars, tooltip, portfolioData, upsert,
                       submitDisabled, summary, formStatus, overtaken>>

\* the symbol whose price run p awaits
PassSymbol(p) ==
    IF passes[p].live THEN portfolioData[passes[p].idx].symbol
    ELSE passes[p].syms[passes[p].idx]

\* the lookup run p awaits is the last of the array it iterates
PassEnds(p) ==
    passes[p].idx >= (IF passes[p].live THEN Len(portfolioData)
                      ELSE Len(passes[p].syms))

\* run p resumes with a looked-up price, and ends there, nothing assigned
\* or rendered, when the price is the 0 of a failed lookup
RefreshResultWithAbort(p, price) ==
    /\ passes[p].st = "awaiting"
    /\ IF price = 0
       THEN /\ passes' = [passes EXCEPT ![p] = IdlePass]
            /\ UNCHANGED <<portfolioData, summary>>
       ELSE /\ portfolioData' = refreshAssign(portfolioData, passes[p], price)
            /\ IF PassEnds(p)
               THEN /\ passes' = [passes EXCEPT ![p] = IdlePass]
                    /\ summary' = updatePortfolioSummary(portfolioData')
               ELSE /\ passes' = [passes EXCEPT
                                     ![p].idx = passes[p].idx + 1,
                                     ![p].held = passes[p].live]
                    /\ UNCHANGED summary
    /\ UNCHANGED <<chartVars, tooltip, upsert, submitDisabled, formStatus,
                   overtaken>>

\* run p resumes with a looked-up price: the assignment, then the next
\* holding of the array, or the end of the loop and renderPortfolioTable
RefreshResultWith(p, price) ==
    /\ passes[p].st = "awaiting"
    /\ portfolioData' = refreshAssign(portfolioData, passes[p], price)
    /\ IF PassEnds(p)
       THEN /\ passes' = [passes EXCEPT ![p] = IdlePass]
            /\ summary' = updatePortfolioSummary(portfolioData')
       ELSE /\ passes' = [passes EXCEPT ![p].idx = passes[p].idx + 1,
                                        ![p].held = passes[p].live]
            /\ UNCHANGED summary
    /\ UNCHANGED <<chartVars, tooltip, upsert, submitDisabled, formStatus,
                   overtaken>>

RefreshResult ==
    \E p \in 1..MaxPasses :
        /\ passes[p].st = "awaiting"
        /\ \E price \in PriceOutcomes(PassSymbol(p)) :
               RefreshResultWith(p, price)

NextPortfolio ==
    \/ Submit
    \/ UpsertReturns
    \/ ClearPortfolio
    \/ RefreshStart
    \/ RefreshResult

\* the page as loaded, in a container that reports no width
InitPortfolio == InitWith(0)

SpecPortfolio == InitPortfolio /\ [][NextPortfolio]_vars

\* the symbol whose price request gets no answer and no network error:
\* fetch() sets no time limit, so its promise can stay pending for ever
HangingSymbol == <<"A", "A", "P", "L">>

\* a run resumes from the lookup of any other symbol
RefreshResultOthers ==
    \E p \in 1..MaxPasses :
        /\ passes[p].st = "awaiting"
        /\ PassSymbol(p) # HangingSymbol
        /\ \E price \in PriceOutcomes(PassSymbol(p)) :
               RefreshResultWith(p, price)

\* The ledger with its scheduling: the 5-minute timer keeps firing, the
\* submit handler's lookup and every lookup of another symbol is answered
\* in the end; a lookup of HangingSymbol may be answered at any time or never.
SpecLookupHangs ==
    /\ InitPortfolio
    /\ [][NextPortfolio]_vars
    /\ WF_vars(RefreshStart)
    /\ WF_vars(RefreshResultOthers)
    /\ WF_vars(UpsertReturns)

---------------------------------------------------------------------------
(* The server on its own: requests for /api/stock-data *)

\* a request arrives and the provider is asked for the ticker's history
StockDataRequest ==
    /\ \E h \in Hists : hist' = h
    /\ response' = EmptyArray
    /\ UNCHANGED <<chartData, isPlaying, isRunning, currentDay, totalDays,
                   playSpeed, playInterval, timers, maxVisibleCandles,
                   minPrice, maxPrice, canvasWidth, clientWidth, loadPc,
                   lastCommand, tooltip, portfolioVars, unattended>>

\* api_stock_data answers it
StockDataAnswer ==
    /\ response' = api_stock_data(hist)
    /\ UNCHANGED <<chartData, isPlaying, isRunning, currentDay, totalDays,
                   playSpeed, playInterval, timers, maxVisibleCandles,
                   minPrice, maxPrice, canvasWidth, clientWidth, loadPc,
                   hist, lastCommand, tooltip, portfolioVars, unattended>>

NextServer == StockDataRequest \/ StockDataAnswer

SpecServer == Init /\ [][NextServer]_vars

---------------------------------------------------------------------------
(* Properties *)

\* number of bars the client holds: the error object holds none
SeriesLen == IF chartData.isArray THEN Len(chartData.rows) ELSE 0

\* the bars of the answer the server has produced for hist
Answered == response.isArray /\ Len(response.rows) = Len(hist)

\* C1, as stated: on every emitted bar, with changePct taken from the bar's
\* own close and open, changePct > 2 gives BUY, changePct < -2 gives SELL
\* and anything else, the boundaries included, gives HOLD.
C1_SignalFromBarFields ==
    \A i \in 1..Len(response.rows) :
        LET b == response.rows[i]
        IN  b.signal = (IF (b.close - b.open) * 100 > 2 * b.open THEN "BUY"
                        ELSE IF (b.close - b.open) * 100 < -2 * b.open
                        THEN "SELL"
                        ELSE "HOLD")

\* C1, amended: the thresholds are applied to changePct computed from the
\* provider's unrounded Open and Close: above 2 gives BUY, below -2 gives
\* SELL, anything else, exactly 2 and exactly -2 included, gives HOLD.
C1_SignalFromProviderPrices ==
    Answered =>
        \A i \in 1..Len(hist) :
            LET num == (hist[i].Close - hist[i].Open) * 100
                den == hist[i].Open
                sig == response.rows[i].signal
            IN  /\ num > 2 * den => sig = "BUY"
                /\ num < -2 * den => sig = "SELL"
                /\ (num <= 2 * den /\ num >= -2 * den) => sig = "HOLD"

\* an answer holding a bar at exactly +2% (HOLD) and one whose rounded
\* prices are exactly 2% apart although the provider's were further (BUY)
C1_Witness ==
    /\ Answered
    /\ \E i \in 1..Len(hist) :
        /\ (hist[i].Close - hist[i].Open) * 100 = 2 * hist[i].Open
        /\ response.rows[i].signal = "HOLD"
    /\ \E i \in 1..Len(hist) :
        /\ (hist[i].Close - hist[i].Open) * 100 > 2 * hist[i].Open
        /\ (response.rows[i].close - response.rows[i].open) * 100
               = 2 * response.rows[i].open
        /\ response.rows[i].change = 200
        /\ response.rows[i].signal = "BUY"

\* C2, as stated: the cursor always lies between 0 and the length of the
\* series the client holds.
C2_CursorWithinSeries == 0 <= currentDay /\ currentDay <= SeriesLen

\* C3, as stated: apart from reset, the cursor only changes by a tick that
\* fires while playing and adds exactly 1, and it never decreases across a
\* step that starts and ends playing.
C3_OnlyResetDecreases ==
    [][ /\ (currentDay' # currentDay /\ ~ResetSystem)
            => (PlayStep /\ isPlaying /\ currentDay' = currentDay + 1)
        /\ (isPlaying /\ isPlaying') => currentDay' >= currentDay ]_vars

\* C3, amended: the cursor decreases only through reset or through the
\* arrival of a series-load answer, both of which set it to 0; every other
\* change of the cursor is an increase of exactly 1 made by a tick, and a
\* tick fires only while isPlaying is true.
C3_OnlyResetOrLoadDecreases ==
    [][ /\ currentDay' # currentDay
            => \/ ResetSystem /\ currentDay' = 0
               \/ FetchReturns /\ currentDay' = 0
               \/ PlayStep /\ isPlaying /\ currentDay' = currentDay + 1
        /\ PlayStep => isPlaying ]_vars

\* playback that was started has advanced the cursor into the series
C3_Witness ==
    /\ isPlaying
    /\ lastCommand = "start"
    /\ currentDay >= 1
    /\ currentDay <= SeriesLen

\* C4, as stated: a tick at the end of the series stops the timer, leaves
\* playing and keeps the cursor; a tick before the end adds exactly 1 to
\* the cursor and stays playing.
C4_TickCompletesOrAdvances ==
    [][ PlayStep =>
          /\ currentDay = SeriesLen
                => /\ ~isPlaying'
                   /\ timers' = {}
                   /\ currentDay' = currentDay
          /\ currentDay < SeriesLen
                => /\ currentDay' = currentDay + 1
                   /\ isPlaying' ]_vars

\* C5, as stated: whatever the state, reset ends with the cursor at 0, not
\* playing, and no timer running.
C5_ResetReachesIdle ==
    [][ ResetSystem
          => (currentDay' = 0 /\ ~isPlaying' /\ timers' = {}) ]_vars

\* C6, as stated: while the last controller command is a pause or a reset,
\* no tick fires.
C6_NoTickAfterPauseOrReset ==
    [][ (lastCommand \in {"pause", "reset"}) => ~(PlayStep) ]_vars

\* C7, as stated: when a load adopts a new series, the cursor is 0, the
\* controller is not playing and no timer runs.
C7_LoadResetsReplayState ==
    [][ (FetchReturns /\ loadPc' = "backtesting")
          => (currentDay' = 0 /\ ~isPlaying' /\ timers' = {}) ]_vars

\* C8, as stated: a load whose fetch brought no rows leaves the series, its
\* stored length and the cursor as they were.
C8_EmptyLoadKeepsSeries ==
    [][ (FetchReturns /\ loadPc' = "idle")
          => /\ chartData' = chartData
             /\ totalDays' = totalDays
             /\ currentDay' = currentDay ]_vars

\* C9: a start with no bars loaded changes neither isPlaying nor the timers
\* nor the cursor; a start with bars loaded and not playing enters playing
\* with exactly one timer, the one playInterval names.
C9_StartNeedsData ==
    [][ (TogglePlay /\ ~isPlaying) =>
          IF SeriesLen = 0
          THEN /\ ~isPlaying'
               /\ timers' = timers
               /\ playInterval' = playInterval
               /\ currentDay' = currentDay
          ELSE /\ isPlaying'
               /\ Cardinality(timers') = 1
               /\ \A t \in timers' : t.id = playInterval'
               /\ currentDay' = currentDay ]_vars

\* a start was refused for want of data
C9_Witness ==
    /\ lastCommand = "start"
    /\ ~isPlaying
    /\ timers = {}
    /\ SeriesLen = 0

\* C10: pause and resume leave the cursor, the series and its stored
\* length as they were.
C10_PauseResumeKeepCursor ==
    [][ TogglePlay
          => /\ currentDay' = currentDay
             /\ chartData' = chartData
             /\ totalDays' = totalDays ]_vars

\* playback paused part-way through the series
C10_Witness ==
    /\ lastCommand = "pause"
    /\ ~isPlaying
    /\ timers = {}
    /\ currentDay >= 1
    /\ currentDay < SeriesLen

\* C11: never more than one interval timer is active; a speed change while
\* playing replaces the running timer by one new timer with the new
\* interval, and a speed change while not playing starts none.
C11_SingleTimer ==
    [][ /\ Cardinality(timers') <= 1
        /\ SetSpeed =>
             IF isPlaying
             THEN /\ Cardinality(timers') = 1
                  /\ timers' \cap timers = {}
                  /\ \A t \in timers' : t.ms = playSpeed' /\ t.id = playInterval'
             ELSE timers' = timers /\ timers' = {} ]_vars

\* playing on a timer that runs at a slider speed
C11_Witness ==
    /\ isPlaying
    /\ playSpeed \in SliderValues
    /\ Cardinality(timers) = 1
    /\ \A t \in timers : t.ms = playSpeed /\ t.id = playInterval
    /\ currentDay >= 1

\* C12: with the cursor and the number of candles that fit both >= 0, the
\* window the render pass draws starts at max(0, cursor - maxVisible), ends
\* at the cursor and is never longer than maxVisible.
C12_WindowBounds ==
    LET mv == drawChartMaxVisible(canvasWidth)
        s  == drawChartStartIndex(currentDay, mv)
        e  == drawChartEndIndex(currentDay)
    IN  (currentDay >= 0 /\ mv >= 0) =>
            /\ s >= 0
            /\ s >= currentDay - mv
            /\ s = 0 \/ s = currentDay - mv
            /\ e = currentDay
            /\ e - s <= mv

\* a frame whose window has slid: more days revealed than candles fit
C12_Witness ==
    /\ SeriesLen > 0
    /\ maxVisibleCandles = drawChartMaxVisible(canvasWidth)
    /\ maxVisibleCandles >= 0
    /\ currentDay > maxVisibleCandles
    /\ drawChartStartIndex(currentDay, maxVisibleCandles) > 0

C14_BodyCentreHits ==
    [][ \A k \in 0..(MaxLen - 1) :
            (PaintedBody(k)
                /\ MouseMoveAt(BodyCentre(PaintedCandle(k), k, minPrice,
                                          maxPrice)))
            => tooltip' = drawChartStartIndex(currentDay,
                              drawChartMaxVisible(canvasWidth)) + k ]_vars

\* C15: when an upsert for a symbol completes, the portfolio holds exactly
\* one Holding of that symbol, with the average price and quantity of this
\* call; for a symbol that was held already no Holding is added, and every
\* Holding of another symbol is what and where it was.
C15_UpsertOverwrites ==
    [][ UpsertReturns =>
            LET u    == upsert[1]
                same == {i \in 1..Len(portfolioData') :
                             portfolioData'[i].symbol = u.symbol}
                was  == {i \in 1..Len(portfolioData) :
                             portfolioData[i].symbol = u.symbol}
            IN  /\ Cardinality(same) = 1
                /\ \A i \in same :
                       /\ portfolioData'[i].avgPrice = u.avgPrice
                       /\ portfolioData'[i].quantity = u.quantity
                /\ was # {} => Len(portfolioData') = Len(portfolioData)
                /\ \A i \in (1..Len(portfolioData)) \ was :
                       /\ i <= Len(portfolioData')
                       /\ portfolioData'[i] = portfolioData[i] ]_vars

\* a second upsert of AAPL has replaced its values, MSFT next to it
C15_Witness ==
    /\ formStatus = "updated"
    /\ Len(portfolioData) = 2
    /\ portfolioData[1].symbol = <<"A", "A", "P", "L">>
    /\ portfolioData[1].avgPrice = 20000
    /\ portfolioData[1].quantity = 5
    /\ portfolioData[2].symbol = <<"M", "S", "F", "T">>

\* the holdings of the example: AAPL 10 at 100.00 now 110.00, MSFT 5 at
\* 200.00 now 190.00
ExampleHoldings ==
    << [symbol |-> <<"A", "A", "P", "L">>, avgPrice |-> 10000,
        quantity |-> 10, currentPrice |-> 11000],
       [symbol |-> <<"M", "S", "F", "T">>, avgPrice |-> 20000,
        quantity |-> 5, currentPrice |-> 19000] >>

\* a step that ends in renderPortfolioTable, and so in a new summary
Renders ==
    \/ UpsertReturns
    \/ ClearPortfolio
    \/ \E p \in 1..MaxPasses :
           /\ passes[p].st = "awaiting"
           /\ PassEnds(p)
           /\ \E price \in PriceOutcomes(PassSymbol(p)) :
                  RefreshResultWith(p, price)

\* C16 as stated: the summary rendered for the example holdings is total
\* value 1950.00, total cost 2000.00, gain/loss -50.00 and -2.5 percent.
C16_ExampleSummaryStated ==
    [][ (Renders /\ portfolioData' = ExampleHoldings) =>
            /\ summary'.totalValue = 195000
            /\ summary'.totalCost = 200000
            /\ summary'.totalGainLoss = -5000
            /\ 10 * summary'.percentNum = -25 * summary'.percentDen ]_vars

\* C16 amended: the summary rendered for the example holdings is total
\* value 2050.00, total cost 2000.00, gain/loss +50.00 and +2.5 percent.
C16_ExampleSummary ==
    [][ (Renders /\ portfolioData' = ExampleHoldings) =>
            /\ summary'.totalValue = 205000
            /\ summary'.totalCost = 200000
            /\ summary'.totalGainLoss = 5000
            /\ 10 * summary'.percentNum = 25 * summary'.percentDen ]_vars

\* the example holdings on the page with their summary rendered
C16_Witness ==
    /\ portfolioData = ExampleHoldings
    /\ summary.totalValue = 205000
    /\ summary.totalGainLoss = 5000
    /\ \A p \in 1..MaxPasses : passes[p].st = "idle"

RECURSIVE ValueOfFirst(_, _), CostOfFirst(_, _)
\* sum of currentPrice * quantity over the first n Holdings
ValueOfFirst(pd, n) ==
    IF n = 0 THEN 0
    ELSE ValueOfFirst(pd, n - 1) + pd[n].currentPrice * pd[n].quantity
\* sum of avgPrice * quantity over the first n Holdings
CostOfFirst(pd, n) ==
    IF n = 0 THEN 0
    ELSE CostOfFirst(pd, n - 1) + pd[n].avgPrice * pd[n].quantity

\* C17: every rendered summary has totalValue = sum of currentPrice *
\* quantity, totalGainLoss = totalValue - sum of avgPrice * quantity, and
\* the percentage totalGainLoss / totalCost * 100 when the total cost is
\* positive; when the total cost is 0 the percentage is 0 and nothing was
\* divided.
C17_SummaryFormulas ==
    [][ Renders =>
            LET value == ValueOfFirst(portfolioData', Len(portfolioData'))
                cost  == CostOfFirst(portfolioData', Len(portfolioData'))
            IN  /\ summary'.totalValue = value
                /\ summary'.totalGainLoss = value - cost
                /\ IF cost > 0
                   THEN /\ summary'.divided
                        /\ summary'.percentNum = (value - cost) * 100
                        /\ summary'.percentDen = cost
                   ELSE /\ ~summary'.divided
                        /\ summary'.percentNum = 0 ]_vars

\* two Holdings rendered at a loss, and the percentage divided
C17_Witness ==
    /\ Len(portfolioData) = 2
    /\ summary.divided
    /\ summary.totalGainLoss < 0
    /\ summary.totalValue = ValueOfFirst(portfolioData, 2)

\* C18: a submit whose symbol is empty, or whose average price or quantity
\* is not positive, is rejected: portfolio, lookups in flight (the
\* suspended handler, the refresh runs) and summary stay as they were.
\* Every Holding of the portfolio has a non-empty symbol, a positive
\* average price and a positive quantity.
C18_InvalidRejected ==
    [][ /\ ( \E raw \in RawSymbols, n \in NumberInputs :
                 /\ \/ symbolOf[raw] = <<>>
                    \/ n.avgPrice <= 0
                    \/ n.quantity <= 0
                 /\ SubmitWith(raw, n.avgPrice, n.quantity) )
           => /\ UNCHANGED <<portfolioData, upsert, submitDisabled, passes,
                             summary>>
              /\ formStatus' = "rejected"
        /\ \A i \in 1..Len(portfolioData') :
              /\ portfolioData'[i].symbol # <<>>
              /\ portfolioData'[i].avgPrice > 0
              /\ portfolioData'[i].quantity > 0 ]_vars

\* a submit has been rejected over a portfolio that holds something
C18_Witness ==
    /\ formStatus = "rejected"
    /\ Len(portfolioData) > 0
    /\ upsert = <<>>

\* C19: a step of a price refresh (the start of a run, the arrival of a
\* looked-up price) leaves the number and order of the Holdings and each
\* Holding's symbol, average price and quantity as they were.
C19_RefreshChangesPricesOnly ==
    [][ (RefreshStart \/ RefreshResult) =>
            /\ Len(portfolioData') = Len(portfolioData)
            /\ \A i \in 1..Len(portfolioData) :
                   /\ portfolioData'[i].symbol = portfolioData[i].symbol
                   /\ portfolioData'[i].avgPrice = portfolioData[i].avgPrice
                   /\ portfolioData'[i].quantity = portfolioData[i].quantity
        ]_vars

\* a refresh run has stored the price of the first Holding and awaits the
\* second
C19_Witness ==
    \E p \in 1..MaxPasses :
        /\ passes[p].st = "awaiting"
        /\ passes[p].live
        /\ passes[p].held
        /\ passes[p].idx = 2
        /\ portfolioData[1].currentPrice > 0

\* C20: a price that arrives for a refresh run that was under way when
\* the portfolio was cleared leaves the portfolio as it is: no Holding is
\* added, and no Holding upserted since the clear has its price changed.
C20_LateResultsDiscarded ==
    [][ \A p \in 1..MaxPasses :
            ( /\ passes[p].st = "awaiting"
              /\ ~passes[p].live
              /\ \E price \in PriceOutcomes(PassSymbol(p)) :
                     RefreshResultWith(p, price) )
            => portfolioData' = portfolioData ]_vars

\* a run cut off by a clear still awaits the price of a symbol that has
\* been upserted again since, priced 0
C20_Witness ==
    \E p \in 1..MaxPasses :
        /\ passes[p].st = "awaiting"
        /\ ~passes[p].live
        /\ \E i \in 1..Len(portfolioData) :
               /\ portfolioData[i].symbol = PassSymbol(p)
               /\ portfolioData[i].currentPrice = 0

\* C21: when a lookup of a refresh run fails, the run goes on: it awaits
\* the price of the next holding of the array it iterates, or, after the
\* last one, ends with the table rendered; and whatever price a run receives
\* for a holding still in the portfolio is stored with that holding.
C21_FailureDoesNotAbort ==
    [][ \A p \in 1..MaxPasses :
            /\ ( /\ passes[p].st = "awaiting"
                 /\ \E a \in LookupFailures(PassSymbol(p)) :
                        RefreshResultWith(p, fetchCurrentPrice(a)) )
               => IF PassEnds(p)
                  THEN /\ passes'[p].st = "idle"
                       /\ summary' = updatePortfolioSummary(portfolioData')
                  ELSE /\ passes'[p].st = "awaiting"
                       /\ passes'[p].idx = passes[p].idx + 1
            /\ \A a \in (IF passes[p].st = "awaiting"
                           THEN LookupAnswers(PassSymbol(p)) ELSE {}) :
                   ( /\ passes[p].live /\ passes[p].held
                     /\ RefreshResultWith(p, fetchCurrentPrice(a)) )
                   => portfolioData'[passes[p].idx].currentPrice
                          = fetchCurrentPrice(a) ]_vars

\* a run has stored a 0 for the first holding, rendered at 110.00 before,
\* and awaits the price of the second
C21_Witness ==
    \E p \in 1..MaxPasses :
        /\ passes[p].st = "awaiting"
        /\ passes[p].live /\ passes[p].held
        /\ passes[p].idx = 2
        /\ portfolioData[1].currentPrice = 0
        /\ summary.totalValue
              = 11000 * portfolioData[1].quantity
                + portfolioData[2].currentPrice * portfolioData[2].quantity

\* C22, as stated: no emitted bar comes from a malformed row: every bar of
\* every answer has open # 0 and low <= open, close <= high.
C22_NoMalformedBar ==
    \A i \in 1..Len(response.rows) :
        LET b == response.rows[i]
        IN  /\ b.open # 0
            /\ b.low <= b.open /\ b.open <= b.high
            /\ b.low <= b.close /\ b.close <= b.high

\* the frame on the canvas: what the most recent drawChart computed.  Every
\* handler that changes chartData, currentDay or canvas.width ends in
\* drawChart, so the frame is drawChart's result on the current globals.
Frame ==
    drawChart(chartData, currentDay, canvasWidth, maxVisibleCandles,
              minPrice, maxPrice)

\* the candles drawChart handed to drawCandlestick in that frame
FrameCount ==
    IF chartData.isArray /\ Len(chartData.rows) > 0
    THEN drawChartVisible(Len(chartData.rows),
                          drawChartStartIndex(currentDay,
                                              Frame.maxVisibleCandles),
                          drawChartEndIndex(currentDay))
    ELSE 0

\* drawCandlestick for slot k of the frame: the index of its candle, the x
\* extent of its body and highY, lowY
RenderBox(k) ==
    LET idx == drawChartStartIndex(currentDay, Frame.maxVisibleCandles) + k
        candle == chartData.rows[idx + 1]
    IN  [candle |-> idx,
         left   |-> drawCandlestickX(k) - candleWidth \div 2,
         right  |-> drawCandlestickX(k) + candleWidth \div 2,
         top    |-> drawCandlestickPriceToY(candle.high, Frame.minPrice,
                                            Frame.maxPrice),
         bottom |-> drawCandlestickPriceToY(candle.low, Frame.minPrice,
                                            Frame.maxPrice)]

\* handleSimpleMouseMove: the slots its loop examines
HitCount ==
    IF currentDay = 0 \/ JsLength(chartData) = 0
    THEN 0
    ELSE Max(0, Min(currentDay, maxVisibleCandles))

\* handleSimpleMouseMove for slot i: the index of the candle it reads,
\* candleStartX, candleEndX, candleTopY and candleBottomY
HitBox(i) ==
    LET idx == (IF currentDay > maxVisibleCandles
                THEN currentDay - maxVisibleCandles ELSE 0) + i
        candle == chartData.rows[idx + 1]
        candleStartX == PadLeft + CandleInset + i * (candleWidth + candleSpacing)
    IN  [candle |-> idx,
         left   |-> candleStartX,
         right  |-> candleStartX + candleWidth,
         top    |-> handleSimpleMouseMovePriceToY(candle.high, minPrice,
                                                  maxPrice),
         bottom |-> handleSimpleMouseMovePriceToY(candle.low, minPrice,
                                                  maxPrice)]

\* C23: the pointer handler examines exactly the candles painted in the
\* most recent frame, and for each of them its x extent, priceToY(high) and
\* priceToY(low) equal those drawCandlestick painted it with.
C23_SameGeometry ==
    chartData.isArray =>
        /\ HitCount = FrameCount
        /\ \A k \in 0..(FrameCount - 1) :
               /\ minPrice = Frame.minPrice /\ maxPrice = Frame.maxPrice
               /\ ScaleDefined(minPrice, maxPrice) => HitBox(k) = RenderBox(k)

\* a frame of two painted candles on a defined scale
C23_Witness ==
    /\ chartData.isArray
    /\ FrameCount = 2 /\ HitCount = 2
    /\ ScaleDefined(minPrice, maxPrice)
    /\ HitBox(1) = RenderBox(1)
    /\ HitBox(1).top < HitBox(1).bottom

\* C24: a pointer-move or pointer-leave event, wherever it falls between
\* ticks and controller operations, leaves the cursor, the series, isPlaying,
\* the speed, the timer and the viewport parameters as they were; it can
\* change the tooltip only.
C24_PointerChangesTooltipOnly ==
    [][ (MouseMove \/ MouseLeave)
            => UNCHANGED <<currentDay, chartData, totalDays, isPlaying,
                           playSpeed, playInterval, timers,
                           maxVisibleCandles, minPrice, maxPrice,
                           canvasWidth, clientWidth>> ]_vars

\* the tooltip shows a bar while the replay is running on its timer
C24_Witness ==
    /\ tooltip # TooltipHidden
    /\ isPlaying /\ timers # {}
    /\ currentDay >= 1

\* the price range of a whole series: its lowest low and highest high, each
\* moved outward by a tenth of their distance (prices in cents, range in
\* tenths of a cent)
PaddedRange(rows) ==
    [minPrice |-> 10 * SeqMin(rows, 1) - (SeqMax(rows, 1) - SeqMin(rows, 1)),
     maxPrice |-> 10 * SeqMax(rows, 1) + (SeqMax(rows, 1) - SeqMin(rows, 1))]

\* C25, as stated: at every cursor position from 1 to the length of the
\* loaded series, minPrice and maxPrice are the lowest low and the highest
\* high of the whole series, each moved outward by 10% of their distance.
C25_RangeAtEveryCursor ==
    ( /\ chartData.isArray
      /\ 1 <= currentDay /\ currentDay <= Len(chartData.rows) )
    => /\ minPrice = PaddedRange(chartData.rows).minPrice
       /\ maxPrice = PaddedRange(chartData.rows).maxPrice

\* C25, amended: in every frame that shows at least one candle, at every
\* cursor position from 1 to the length of the loaded series, minPrice and
\* maxPrice are the lowest low and the highest high of the whole series,
\* each moved outward by 10% of their distance, whatever the visible slice.
C25_RangeInEveryFrame ==
    ( /\ chartData.isArray
      /\ 1 <= currentDay /\ currentDay <= Len(chartData.rows)
      /\ FrameCount > 0 )
    => /\ minPrice = PaddedRange(chartData.rows).minPrice
       /\ maxPrice = PaddedRange(chartData.rows).maxPrice

\* a frame whose only visible candle is the last of two and lies strictly
\* inside the range of the series
C25_Witness ==
    /\ chartData.isArray /\ Len(chartData.rows) = 2 /\ currentDay = 2
    /\ FrameCount = 1
    /\ chartData.rows[2].low > SeqMin(chartData.rows, 1)
    /\ chartData.rows[2].high < SeqMax(chartData.rows, 1)
    /\ minPrice = PaddedRange(chartData.rows).minPrice
    /\ maxPrice = PaddedRange(chartData.rows).maxPrice

\* C26: when a load has put a series in place, the canvas is at least as
\* wide as the left and right padding plus one candle slot per bar of the
\* series, and running adjustCanvasWidth once more on the same series gives
\* the same width and the same viewport.
C26_LoadSizesCanvas ==
    [][ ( /\ loadPc = "fetching" /\ loadPc' = "backtesting"
          /\ FetchReturns )
        => /\ chartData'.isArray /\ Len(chartData'.rows) > 0
           /\ canvasWidth' >= PadLeft + PadRight
                   + Len(chartData'.rows) * (candleWidth + candleSpacing)
           /\ adjustCanvasWidth(chartData', currentDay', canvasWidth',
                                clientWidth', maxVisibleCandles', minPrice',
                                maxPrice')
                  = [canvasWidth |-> canvasWidth',
                     draw |-> [maxVisibleCandles |-> maxVisibleCandles',
                               minPrice |-> minPrice',
                               maxPrice |-> maxPrice',
                               threw |-> FALSE]] ]_vars

\* a load has just widened the canvas beyond its container, to the width
\* the series needs
C26_Witness ==
    /\ loadPc = "backtesting"
    /\ chartData.isArray /\ Len(chartData.rows) = 2
    /\ clientWidth = 150
    /\ canvasWidth = PadLeft + PadRight
           + Len(chartData.rows) * (candleWidth + candleSpacing) + CanvasSlack

\* C27, as stated: when a refresh run over two holdings awaits the price of
\* the first and that lookup is never answered, the lookup of the second
\* holding is still issued by that run in the end.
C27_OthersNotBlocked ==
    \A p \in 1..MaxPasses :
        ( /\ passes[p].st = "awaiting" /\ passes[p].live
          /\ passes[p].idx = 1
          /\ Len(portfolioData) = 2
          /\ portfolioData[2].symbol # HangingSymbol )
        ~> (passes[p].st = "awaiting" /\ passes[p].idx = 2)

\* symbol, average price and quantity of every holding, in order
Positions(pd) ==
    [i \in 1..Len(pd) |-> [symbol |-> pd[i].symbol,
                            avgPrice |-> pd[i].avgPrice,
                            quantity |-> pd[i].quantity]]

\* C28, as stated: a refresh run works on a stable snapshot: between its
\* start and its end no upsert and no clear takes effect, so that the
\* holdings it iterates are those of the portfolio when it started.
C28_StableSnapshot ==
    [][ (\E p \in 1..MaxPasses : passes[p].st = "awaiting")
            => Positions(portfolioData') = Positions(portfolioData) ]_vars

\* C29, as stated: a lookup that fails, in a refresh run or in the upsert of
\* a symbol held already, leaves the currentPrice stored for that symbol
\* as it was.
C29_FailureKeepsPrice ==
    [][ /\ \A p \in 1..MaxPasses :
              ( /\ passes[p].st = "awaiting"
                /\ passes[p].live /\ passes[p].held
                /\ \E a \in LookupFailures(PassSymbol(p)) :
                       RefreshResultWith(p, fetchCurrentPrice(a)) )
              => portfolioData'[passes[p].idx].currentPrice
                     = portfolioData[passes[p].idx].currentPrice
        /\ ( /\ upsert # <<>>
             /\ findIndex(portfolioData, upsert[1].symbol) # 0
             /\ \E a \in LookupFailures(upsert[1].symbol) :
                    UpsertReturnsWith(fetchCurrentPrice(a)) )
           => portfolioData'[findIndex(portfolioData, upsert[1].symbol)].currentPrice
                  = portfolioData[findIndex(portfolioData, upsert[1].symbol)].currentPrice
      ]_vars

\* the bounds of the speed slider (min and max of the range input)
SpeedMin == 50
SpeedMax == 500

\* C30, as stated: in every reachable state, the initial one included,
\* playSpeed is a whole number of milliseconds from 50 to 500, and every
\* running timer was started with it as its interval.
C30_SpeedWithinBounds ==
    /\ playSpeed \in SpeedMin..SpeedMax
    /\ \A t \in timers : t.ms = playSpeed

\* C31: in every reachable state a playback timer is active exactly when
\* isPlaying is true, whichever of start, pause, resume, the speed slider,
\* reset, the completing tick and the loads came before.
C31_TimerIffPlaying == isPlaying <=> timers # {}

\* the replay has run to its end on a timer restarted by the speed slider,
\* and the completing tick has cancelled it
C31_Witness ==
    /\ ~isPlaying /\ timers = {}
    /\ chartData.isArray /\ Len(chartData.rows) > 0
    /\ currentDay = Len(chartData.rows)
    /\ playSpeed \in SliderValues
    /\ lastCommand = "start"

\* C32, as stated: once the replay is playing and left to itself, each tick
\* below the length n of the series adds exactly 1 to the cursor and keeps
\* playing, and the tick at cursor n, the (n - c) + 1st, cancels the timer
\* and ends the replay with the cursor at n.
C32_TicksToEnd ==
    [][ (unattended /\ PlayStep)
            => IF currentDay < SeriesLen
               THEN currentDay' = currentDay + 1 /\ isPlaying'
               ELSE /\ currentDay = SeriesLen /\ currentDay' = currentDay
                    /\ ~isPlaying' /\ timers' = {} ]_vars

\* the cursor is at the end of a loaded, non-empty series
AtEndOfSeries ==
    /\ chartData.isArray /\ Len(chartData.rows) > 0
    /\ currentDay = Len(chartData.rows)

\* C33: a start issued in Complete (cursor at the end of the series, not
\* playing) enters Playing and leaves the cursor where it is; the tick that
\* follows ends the replay again without moving the cursor; and from the
\* end of the series only a reset or a load changes the cursor.
C33_StartAtEndDoesNotRewind ==
    [][ /\ (AtEndOfSeries /\ ~isPlaying /\ TogglePlay)
            => /\ isPlaying' /\ timers' # {}
               /\ currentDay' = currentDay
        /\ (AtEndOfSeries /\ isPlaying /\ PlayStep)
            => /\ ~isPlaying' /\ timers' = {}
               /\ currentDay' = currentDay
        /\ (AtEndOfSeries /\ currentDay' # currentDay)
            => (ResetSystem \/ FetchReturns) ]_vars

\* Playing again on a second timer with the cursor at the end of a series
\* of two bars
C33_Witness ==
    /\ AtEndOfSeries /\ Len(chartData.rows) = 2
    /\ isPlaying /\ lastCommand = "start"
    /\ \E t \in timers : t.id = 2

\* C34: while the window is not resized, a loaded series always fits the
\* canvas: maxVisibleCandles is at least the length of the series at every
\* redraw, the visible slice starts at index 0 at every cursor value, and
\* the tick's auto-scroll condition currentDay > maxVisibleCandles is false.
C34_SeriesFitsCanvas ==
    (chartData.isArray /\ Len(chartData.rows) > 0)
    => /\ maxVisibleCandles >= Len(chartData.rows)
       /\ maxVisibleCandles = drawChartMaxVisible(canvasWidth)
       /\ drawChartStartIndex(currentDay, maxVisibleCandles) = 0
       /\ ~(currentDay > maxVisibleCandles)

\* the last bar of a series of two is shown on a canvas that the load made
\* wider than its 140-pixel container
C34_Witness ==
    /\ chartData.isArray /\ Len(chartData.rows) = 2 /\ currentDay = 2
    /\ clientWidth = 140 /\ canvasWidth > clientWidth
    /\ maxVisibleCandles = drawChartMaxVisible(canvasWidth)
    /\ FrameCount = 2

\* what the tooltip shows after a mousemove at pointer position p
Resolved(p) ==
    handleSimpleMouseMove(chartData, currentDay, maxVisibleCandles, minPrice,
                          maxPrice, tooltip, p.x, p.y)

\* C35, as stated: wherever the pointer is, a bar the pointer handler
\* resolves has an index from startIndex up to, not including, the cursor,
\* which is at most the length of the series; with the cursor at 0 or no
\* series loaded the handler resolves none and the tooltip is hidden.
C35_OnlyRevealedBars ==
    \A p \in Pointers :
        /\ (currentDay = 0 \/ SeriesLen = 0) => Resolved(p) = TooltipHidden
        /\ Resolved(p) # TooltipHidden
              => /\ (IF currentDay > maxVisibleCandles
                      THEN currentDay - maxVisibleCandles ELSE 0) <= Resolved(p)
                 /\ Resolved(p) < currentDay
                 /\ currentDay <= SeriesLen

\* maxVisibleCandles, minPrice and maxPrice are what drawChart computes from
\* the series the client holds now and the width the canvas has now
CachesCurrent ==
    /\ maxVisibleCandles = drawChartMaxVisible(canvasWidth)
    /\ minPrice = PaddedRange(chartData.rows).minPrice
    /\ maxPrice = PaddedRange(chartData.rows).maxPrice

\* C36, as stated: whenever the cursor is above 0 over a loaded series, the
\* cached minPrice, maxPrice and maxVisibleCandles are those computed from
\* that series and the current canvas width.
C36_CachesCurrentAtEveryCursor ==
    (chartData.isArray /\ Len(chartData.rows) > 0 /\ currentDay > 0)
        => CachesCurrent

\* C36, amended: whenever the pointer handler has a candle to test the
\* pointer against (the cursor above 0 and room for at least one candle on
\* the canvas), the cached minPrice, maxPrice and maxVisibleCandles it reads
\* are those computed from the series loaded now and the current canvas
\* width; no pointer event is resolved with the scale of a replaced series.
C36_CachesCurrentWhenRead ==
    (chartData.isArray /\ HitCount > 0) => CachesCurrent

\* a replay that went on through a load shows the first bar of the new
\* series, and the pointer on that candle is resolved on the current scale
C36_Witness ==
    /\ loadPc = "backtesting" /\ isPlaying
    /\ chartData.isArray /\ currentDay = 1 /\ HitCount = 1
    /\ ScaleDefined(minPrice, maxPrice)
    /\ CachesCurrent
    /\ Resolved(PointerOverSlot(0)) = 0

\* C37, as stated: whenever drawCandlestick or the pointer handler evaluates
\* priceToY, that is whenever the frame holds a candle or the handler has
\* one to test, maxPrice is strictly above minPrice, whatever the series.
C37_PriceRangePositive ==
    (chartData.isArray /\ (FrameCount > 0 \/ HitCount > 0))
        => /\ minPrice # undefined /\ maxPrice # undefined
           /\ maxPrice > minPrice

\* C38: in every reachable state no two holdings of the portfolio have the
\* same symbol, however submits, their price lookups, refresh runs and
\* clears interleave.
C38_OneHoldingPerSymbol ==
    \A i, j \in 1..Len(portfolioData) :
        portfolioData[i].symbol = portfolioData[j].symbol => i = j

\* a held symbol was submitted again and replaced in place while a refresh
\* run was waiting for a price, next to a holding of another symbol
C38_Witness ==
    /\ Len(portfolioData) = 2
    /\ formStatus = "updated"
    /\ \E p \in 1..MaxPasses : passes[p].st = "awaiting" /\ ~passes[p].held
    /\ portfolioData[1].symbol # portfolioData[2].symbol

\* C39, as stated: once Clear All has run while a submit was waiting for its
\* price, the portfolio stays empty until a submit made after the clear:
\* the holding of the earlier submit never appears.
C39_ClearedStaysEmpty == overtaken => portfolioData = <<>>

\* C40: at most one load is in flight (isRunning is true exactly while the
\* one runBacktest call is suspended, and no call starts fetching while it
\* is), and every load that started sets isRunning back to false, whether
\* its fetch brought bars, the no-data body, or failed.
C40_OneLoadThatEnds ==
    /\ [](isRunning <=> loadPc # "idle")
    /\ [][isRunning => (loadPc' = loadPc \/ loadPc' # "fetching")]_vars
    /\ isRunning ~> ~isRunning

\* a load has ended through the exception of the no-data body and
\* isRunning is false again
C40_Witness ==
    /\ ~isRunning /\ loadPc = "idle"
    /\ ~chartData.isArray

=============================================================================
